---- MODULE Spec2Model ----
(***************************************************************************)
(* A model of polonius-engine's fact store (AllFacts) and of its CFG       *)
(* simplification pass, simplify_cfg, in polonius-engine/src/facts.rs.     *)
(*                                                                         *)
(* The store is a record of seven relations, each a sequence of tuples     *)
(* (a Rust Vec).  simplify_cfg is modelled one loop iteration at a time:   *)
(* Begin computes isolated_chains() and fixes the order in which the       *)
(* HashSet of chain heads was iterated, NextChain enters simplify_chain,   *)
(* each Step* action is one iteration of the loop of simplify_chain, and   *)
(* Finish returns from simplify_cfg.                                       *)
(***************************************************************************)
EXTENDS Integers, Sequences, FiniteSets, TLC

VARIABLES
    facts,    \* the AllFacts store
    pc,       \* "idle": outside simplify_cfg, "loop": in its loop,
              \* "chain": in the loop of simplify_chain
    chains,   \* the chains simplify_cfg has still to visit
    rest,     \* the points simplify_chain has still to visit
    current,  \* the anchor of simplify_chain
    run,      \* number of completed calls of simplify_cfg
    input,    \* history: the store before the first call
    orig,     \* history: the store at the start of the current call
    after1,   \* history: the store at the end of the first call
    merged,   \* history: the points merged away during the current call
    rep,      \* history: the surviving point each point was merged into
    last,     \* history: the last iteration of simplify_chain
    loader    \* the state of load_tab_delimited_file (src/tab_delim.rs)

simplify_vars == <<facts, pc, chains, rest, current, run, input, orig, after1,
                   merged, rep, last>>

vars == <<simplify_vars, loader>>

----------------------------------------------------------------------------
(* Bounds of the model.                                                    *)

\* Points of the enumerated graphs without facts are 0..MaxPoint.
MaxPoint == 3
\* Longest cfg_edge list of the enumerated graphs without facts.
MaxEdges == 3
\* Points of the enumerated graphs with facts are 0..MaxFactPoint.
MaxFactPoint == 2
\* Longest cfg_edge list of the enumerated graphs with facts.
MaxFactEdges == 3
\* Last point of the path of the inputs that carry facts on every point.
MaxPath == 3
\* Number of successive calls of simplify_cfg on the same store.
MaxRuns == 2
\* Longest line, in characters, of the enumerated fact files.
MaxLineLen == 3
\* Largest number of lines of the enumerated fact files.
MaxLines == 2

----------------------------------------------------------------------------
(* Generic helpers on sequences.                                           *)

Range(s) == {s[i] : i \in 1..Len(s)}

SeqsUpTo(S, n) == UNION {[1..k -> S] : k \in 0..n}

Count(s, x) == Cardinality({i \in 1..Len(s) : s[i] = x})

NoDuplicates(s) == \A i, j \in 1..Len(s) : s[i] = s[j] => i = j

\* Option<Point>: None and Some(q).
None == <<>>
Some(q) == <<q>>

EmptyMap == [x \in {} |-> None]

----------------------------------------------------------------------------
(* The fact store.                                                         *)

\* AllFacts::default()
DefaultFacts ==
    [borrow_region |-> <<>>, universal_region |-> <<>>, cfg_edge |-> <<>>,
     killed |-> <<>>, outlives |-> <<>>, region_live_at |-> <<>>,
     invalidates |-> <<>>]

\* Every point mentioned by a store.
PointsOf(f) ==
    {e[1] : e \in Range(f.cfg_edge)} \cup {e[2] : e \in Range(f.cfg_edge)}
    \cup {t[3] : t \in Range(f.borrow_region)}
    \cup {t[2] : t \in Range(f.killed)}
    \cup {t[3] : t \in Range(f.outlives)}
    \cup {t[2] : t \in Range(f.region_live_at)}
    \cup {t[1] : t \in Range(f.invalidates)}

----------------------------------------------------------------------------
(* isolated_edges and isolated_chains.                                     *)

\* successors with a slip: a second edge from the same source leaves the
\* first entry in place instead of marking the source as ambiguous.
RECURSIVE successors_first_wins(_, _)
successors_first_wins(edges, n) ==
    IF n = 0 THEN EmptyMap
    ELSE LET m == successors_first_wins(edges, n - 1)
             p == edges[n][1]
             q == edges[n][2]
         IN  IF p \in DOMAIN m THEN m ELSE m @@ (p :> Some(q))

\* The `successors` HashMap after the loop over cfg_edge: a point seen once
\* as a source maps to Some(q), a point seen again maps to None.
RECURSIVE successors(_, _)
successors(edges, n) ==
    IF n = 0 THEN EmptyMap
    ELSE LET m == successors(edges, n - 1)
             p == edges[n][1]
             q == edges[n][2]
         IN  IF p \in DOMAIN m THEN [m EXCEPT ![p] = None]
             ELSE m @@ (p :> Some(q))

\* predecessors with a slip: a second edge to the same target leaves the
\* first entry in place instead of marking the target as ambiguous.
RECURSIVE predecessors_first_wins(_, _)
predecessors_first_wins(edges, n) ==
    IF n = 0 THEN EmptyMap
    ELSE LET m == predecessors_first_wins(edges, n - 1)
             p == edges[n][1]
             q == edges[n][2]
         IN  IF q \in DOMAIN m THEN m ELSE m @@ (q :> Some(p))

\* The `predecessors` HashMap after the loop over cfg_edge.
RECURSIVE predecessors(_, _)
predecessors(edges, n) ==
    IF n = 0 THEN EmptyMap
    ELSE LET m == predecessors(edges, n - 1)
             p == edges[n][1]
             q == edges[n][2]
         IN  IF q \in DOMAIN m THEN [m EXCEPT ![q] = None]
             ELSE m @@ (q :> Some(p))

\* The HashMap<Point, Point> returned by isolated_edges.
isolated_edges(f) ==
    LET succ == successors(f.cfg_edge, Len(f.cfg_edge))
        pred == predecessors(f.cfg_edge, Len(f.cfg_edge))
        unique_successors == {p \in DOMAIN succ : succ[p] # None}
        keys == {p \in unique_successors :
                    LET q == succ[p][1]
                    IN  IF q \in DOMAIN pred THEN pred[q] # None ELSE FALSE}
    IN  [p \in keys |-> succ[p][1]]

\* The HashSet chain_heads after the removal loop.
chain_heads(f) ==
    LET ie == isolated_edges(f)
    IN  DOMAIN ie \ {ie[p] : p \in DOMAIN ie}

\* follow_chain with a slip: `if let` in place of `while let`, so that a
\* chain never has more than two points.
follow_chain_once(map, cur, chain) ==
    IF cur \in DOMAIN map
    THEN [chain |-> Append(chain, map[cur]),
          map |-> [x \in DOMAIN map \ {cur} |-> map[x]]]
    ELSE [chain |-> chain, map |-> map]

\* The inner `while let Some(next) = isolated_edges.remove(&current)` loop:
\* returns the chain and the map with the traversed edges removed.
RECURSIVE follow_chain(_, _, _)
follow_chain(map, cur, chain) ==
    IF cur \in DOMAIN map
    THEN follow_chain([x \in DOMAIN map \ {cur} |-> map[x]], map[cur],
                      Append(chain, map[cur]))
    ELSE [chain |-> chain, map |-> map]

\* The `for head in chain_heads` loop, the heads being visited in `order`.
RECURSIVE chains_loop(_, _, _, _)
chains_loop(map, order, i, acc) ==
    IF i > Len(order) THEN acc
    ELSE LET r == follow_chain(map, order[i], <<order[i]>>)
         IN  chains_loop(r.map, order, i + 1, Append(acc, r.chain))

\* The iteration orders a HashSet holding the set S can produce.
Orders(S) ==
    {o \in [1..Cardinality(S) -> S] : \A i, j \in DOMAIN o : o[i] = o[j] => i = j}

\* isolated_chains, for one iteration order of chain_heads.
isolated_chains(f, order) == chains_loop(isolated_edges(f), order, 1, <<>>)

----------------------------------------------------------------------------
(* is_edge_collapsible and its queries.                                    *)

live_regions_at(f, desired_point) ==
    LET sel == SelectSeq(f.region_live_at, LAMBDA t : t[2] = desired_point)
    IN  [i \in 1..Len(sel) |-> sel[i][1]]

killed_loans_at(f, desired_point) ==
    LET sel == SelectSeq(f.killed, LAMBDA t : t[2] = desired_point)
    IN  [i \in 1..Len(sel) |-> sel[i][1]]

outlives_at(f, desired_point) ==
    LET sel == SelectSeq(f.outlives, LAMBDA t : t[3] = desired_point)
    IN  [i \in 1..Len(sel) |-> <<sel[i][1], sel[i][2]>>]

invalidates_at(f, desired_point) ==
    LET sel == SelectSeq(f.invalidates, LAMBDA t : t[1] = desired_point)
    IN  [i \in 1..Len(sel) |-> sel[i][2]]

\* is_edge_collapsible with a slip: the killed loans of the second point
\* are not looked at.
is_edge_collapsible_killed_first_only(f, first, second) ==
    /\ live_regions_at(f, first) = live_regions_at(f, second)
    /\ killed_loans_at(f, first) = <<>>
    /\ outlives_at(f, first) = <<>>
    /\ outlives_at(f, second) = <<>>
    /\ invalidates_at(f, first) = <<>>
    /\ invalidates_at(f, second) = <<>>

\* is_edge_collapsible with a slip: the live regions are not compared.
is_edge_collapsible_no_live(f, first, second) ==
    /\ killed_loans_at(f, first) = <<>>
    /\ killed_loans_at(f, second) = <<>>
    /\ outlives_at(f, first) = <<>>
    /\ outlives_at(f, second) = <<>>
    /\ invalidates_at(f, first) = <<>>
    /\ invalidates_at(f, second) = <<>>

is_edge_collapsible(f, first, second) ==
    /\ live_regions_at(f, first) = live_regions_at(f, second)
    /\ killed_loans_at(f, first) = <<>>
    /\ killed_loans_at(f, second) = <<>>
    /\ outlives_at(f, first) = <<>>
    /\ outlives_at(f, second) = <<>>
    /\ invalidates_at(f, first) = <<>>
    /\ invalidates_at(f, second) = <<>>

----------------------------------------------------------------------------
(* collapse_edge.                                                          *)

\* is_endpoint with a slip: the target column is tested.
is_endpoint_target(f, queried_point) ==
    \A i \in 1..Len(f.cfg_edge) : f.cfg_edge[i][2] # queried_point

\* is_endpoint with a slip: `any` in place of `all`.
is_endpoint_any(f, queried_point) ==
    \E i \in 1..Len(f.cfg_edge) : f.cfg_edge[i][1] # queried_point

is_endpoint(f, queried_point) ==
    \A i \in 1..Len(f.cfg_edge) : f.cfg_edge[i][1] # queried_point

\* is_startpoint with a slip: the source column is tested.
is_startpoint_source(f, queried_point) ==
    \A i \in 1..Len(f.cfg_edge) : f.cfg_edge[i][1] # queried_point

is_startpoint(f, queried_point) ==
    \A i \in 1..Len(f.cfg_edge) : f.cfg_edge[i][2] # queried_point

\* collapse_edge_keeping_first_point with a slip: the edges that leave the
\* second point are not moved to the first point.
collapse_edge_keeping_first_point_no_rewrite(f, first, second) ==
    [f EXCEPT
       !.borrow_region = SelectSeq(@, LAMBDA t : t[3] # second),
       !.killed = SelectSeq(@, LAMBDA t : t[2] # second),
       !.outlives = SelectSeq(@, LAMBDA t : t[3] # second),
       !.region_live_at = SelectSeq(@, LAMBDA t : t[2] # second),
       !.invalidates = SelectSeq(@, LAMBDA t : t[1] # second),
       !.cfg_edge = SelectSeq(@, LAMBDA e : e[2] # second)]

\* collapse_edge_keeping_first_point with a slip: the edges that leave the
\* second point are pushed anew from the first point and the edges of the
\* second point are left in the list.
collapse_edge_keeping_first_point_push(f, first, second) ==
    LET leaving == SelectSeq(f.cfg_edge, LAMBDA e : e[1] = second)
    IN  [f EXCEPT
           !.borrow_region = SelectSeq(@, LAMBDA t : t[3] # second),
           !.killed = SelectSeq(@, LAMBDA t : t[2] # second),
           !.outlives = SelectSeq(@, LAMBDA t : t[3] # second),
           !.region_live_at = SelectSeq(@, LAMBDA t : t[2] # second),
           !.invalidates = SelectSeq(@, LAMBDA t : t[1] # second),
           !.cfg_edge = @ \o [i \in 1..Len(leaving) |->
                                 <<first, leaving[i][2]>>]]

\* collapse_edge_keeping_first_point with a slip: region_live_at drops the
\* tuples of the first point.
collapse_edge_keeping_first_point_wrong_live(f, first, second) ==
    LET kept == SelectSeq(f.cfg_edge, LAMBDA e : e[2] # second)
    IN  [f EXCEPT
           !.borrow_region = SelectSeq(@, LAMBDA t : t[3] # second),
           !.killed = SelectSeq(@, LAMBDA t : t[2] # second),
           !.outlives = SelectSeq(@, LAMBDA t : t[3] # second),
           !.region_live_at = SelectSeq(@, LAMBDA t : t[2] # first),
           !.invalidates = SelectSeq(@, LAMBDA t : t[1] # second),
           !.cfg_edge = [i \in 1..Len(kept) |->
                            IF kept[i][1] = second THEN <<first, kept[i][2]>>
                            ELSE kept[i]]]

collapse_edge_keeping_first_point(f, first, second) ==
    LET kept == SelectSeq(f.cfg_edge, LAMBDA e : e[2] # second)
    IN  [f EXCEPT
           !.borrow_region = SelectSeq(@, LAMBDA t : t[3] # second),
           !.killed = SelectSeq(@, LAMBDA t : t[2] # second),
           !.outlives = SelectSeq(@, LAMBDA t : t[3] # second),
           !.region_live_at = SelectSeq(@, LAMBDA t : t[2] # second),
           !.invalidates = SelectSeq(@, LAMBDA t : t[1] # second),
           !.cfg_edge = [i \in 1..Len(kept) |->
                            IF kept[i][1] = second THEN <<first, kept[i][2]>>
                            ELSE kept[i]]]

\* collapse_edge_keeping_second_point with a slip: the edges that enter the
\* first point are not moved to the second point.
collapse_edge_keeping_second_point_no_rewrite(f, first, second) ==
    [f EXCEPT
       !.borrow_region = SelectSeq(@, LAMBDA t : t[3] # first),
       !.killed = SelectSeq(@, LAMBDA t : t[2] # first),
       !.outlives = SelectSeq(@, LAMBDA t : t[3] # first),
       !.region_live_at = SelectSeq(@, LAMBDA t : t[2] # first),
       !.invalidates = SelectSeq(@, LAMBDA t : t[1] # first),
       !.cfg_edge = SelectSeq(@, LAMBDA e : e[1] # first)]

\* collapse_edge_keeping_second_point with a slip: borrow_region keeps the
\* tuples of the first point.
collapse_edge_keeping_second_point_keep_borrow(f, first, second) ==
    LET kept == SelectSeq(f.cfg_edge, LAMBDA e : e[1] # first)
    IN  [f EXCEPT
           !.killed = SelectSeq(@, LAMBDA t : t[2] # first),
           !.outlives = SelectSeq(@, LAMBDA t : t[3] # first),
           !.region_live_at = SelectSeq(@, LAMBDA t : t[2] # first),
           !.invalidates = SelectSeq(@, LAMBDA t : t[1] # first),
           !.cfg_edge = [i \in 1..Len(kept) |->
                            IF kept[i][2] = first THEN <<kept[i][1], second>>
                            ELSE kept[i]]]

collapse_edge_keeping_second_point(f, first, second) ==
    LET kept == SelectSeq(f.cfg_edge, LAMBDA e : e[1] # first)
    IN  [f EXCEPT
           !.borrow_region = SelectSeq(@, LAMBDA t : t[3] # first),
           !.killed = SelectSeq(@, LAMBDA t : t[2] # first),
           !.outlives = SelectSeq(@, LAMBDA t : t[3] # first),
           !.region_live_at = SelectSeq(@, LAMBDA t : t[2] # first),
           !.invalidates = SelectSeq(@, LAMBDA t : t[1] # first),
           !.cfg_edge = [i \in 1..Len(kept) |->
                            IF kept[i][2] = first THEN <<kept[i][1], second>>
                            ELSE kept[i]]]

\* The branch collapse_edge takes.
collapse_branch(f, first, second) ==
    IF ~is_endpoint(f, second) THEN "keep_first"
    ELSE IF ~is_startpoint(f, first) THEN "keep_second"
    ELSE "skip"

\* collapse_edge with a slip: the second branch is not guarded by
\* is_startpoint.
collapse_edge_no_skip(f, first, second) ==
    IF ~is_endpoint(f, second)
    THEN collapse_edge_keeping_first_point(f, first, second)
    ELSE collapse_edge_keeping_second_point(f, first, second)

collapse_edge(f, first, second) ==
    IF ~is_endpoint(f, second)
    THEN collapse_edge_keeping_first_point(f, first, second)
    ELSE IF ~is_startpoint(f, first)
    THEN collapse_edge_keeping_second_point(f, first, second)
    ELSE f

----------------------------------------------------------------------------
(* Input stores.                                                           *)

Edges(maxPoint) == (0..maxPoint) \X (0..maxPoint)

EdgeIndex(e, maxPoint) == e[1] * (maxPoint + 1) + e[2]

\* The lists of at most n edges over the points 0..maxPoint in non-decreasing
\* order of EdgeIndex: one list per multiset of edges.
RECURSIVE SortedEdgeLists(_, _)
SortedEdgeLists(n, maxPoint) ==
    IF n = 0 THEN {<<>>}
    ELSE LET shorter == SortedEdgeLists(n - 1, maxPoint)
             longest == {t \in shorter : Len(t) = n - 1}
             extensions ==
                 {x \in longest \X Edges(maxPoint) :
                     \/ n = 1
                     \/ EdgeIndex(x[1][n - 1], maxPoint)
                          <= EdgeIndex(x[2], maxPoint)}
         IN  shorter \cup {Append(x[1], x[2]) : x \in extensions}

\* Every multiset of at most MaxEdges edges (listed in sorted order) and
\* every list of fewer than MaxEdges edges.
GraphInputs ==
    {[DefaultFacts EXCEPT !.cfg_edge = s] :
        s \in SortedEdgeLists(MaxEdges, MaxPoint)
              \cup SeqsUpTo(Edges(MaxPoint), MaxEdges - 1)}

\* The inputs of the unit tests of facts.rs.
short_chain == <<<<0, 1>>, <<1, 2>>>>
long_chain == <<<<0, 1>>, <<1, 2>>, <<2, 3>>, <<3, 4>>, <<4, 5>>, <<5, 6>>>>
two_chains == <<<<0, 1>>, <<1, 2>>, <<2, 3>>, <<4, 5>>, <<5, 6>>>>
chain_with_fork ==
    <<<<0, 1>>, <<1, 2>>, <<2, 3>>, <<3, 4>>, <<2, 5>>, <<5, 6>>>>
chain_with_loop ==
    <<<<0, 1>>, <<1, 2>>, <<2, 3>>, <<3, 4>>, <<4, 5>>, <<5, 6>>, <<6, 7>>,
      <<7, 8>>, <<8, 9>>, <<3, 10>>, <<10, 11>>, <<11, 8>>>>

TestInputs ==
    {[DefaultFacts EXCEPT !.cfg_edge = s] :
        s \in {short_chain, long_chain, two_chains, chain_with_fork,
               chain_with_loop}}

\* The same edges as two of the tests, listed in every order.
Reorderings(s) ==
    {[i \in 1..Len(s) |-> s[o[i]]] :
        o \in {f \in [1..Len(s) -> 1..Len(s)] :
                  \A i, j \in 1..Len(s) : f[i] = f[j] => i = j}}

ReorderedInputs ==
    {[DefaultFacts EXCEPT !.cfg_edge = s] :
        s \in Reorderings(two_chains) \cup Reorderings(chain_with_fork)}

\* Stores with facts: every multiset of at most MaxFactEdges edges over the
\* points 0..MaxFactPoint, with either a region_live_at list of at most two
\* tuples of region 0 at the points 0 and 1, or one tuple at one of these
\* points in one of borrow_region, killed, outlives and invalidates.
LiveLists == SeqsUpTo({<<0, 0>>, <<0, 1>>}, 2)

FactChoices ==
    {[DefaultFacts EXCEPT !.universal_region = <<0>>, !.region_live_at = l] :
        l \in LiveLists}
    \cup {[DefaultFacts EXCEPT !.universal_region = <<0>>,
                               !.borrow_region = <<<<0, 0, p>>>>] : p \in {0, 1}}
    \cup {[DefaultFacts EXCEPT !.universal_region = <<0>>,
                               !.killed = <<<<0, p>>>>] : p \in {0, 1}}
    \cup {[DefaultFacts EXCEPT !.universal_region = <<0>>,
                               !.outlives = <<<<0, 1, p>>>>] : p \in {0, 1}}
    \cup {[DefaultFacts EXCEPT !.universal_region = <<0>>,
                               !.invalidates = <<<<p, 0>>>>] : p \in {0, 1}}

FactInputs ==
    {[c EXCEPT !.cfg_edge = s] :
        c \in FactChoices, s \in SortedEdgeLists(MaxFactEdges, MaxFactPoint)}

\* Stores whose cfg_edge is the path 0 -> 1 -> ... -> MaxPath and whose
\* points each carry one of six kinds of facts.
Kinds == {"none", "r0", "r0r1", "r1r0", "killed", "borrow"}

KindLive(kind, p) ==
    CASE kind = "r0" -> <<<<0, p>>>>
      [] kind = "r0r1" -> <<<<0, p>>, <<1, p>>>>
      [] kind = "r1r0" -> <<<<1, p>>, <<0, p>>>>
      [] OTHER -> <<>>

RECURSIVE KindFacts(_, _)
KindFacts(k, p) ==
    IF p < 0 THEN [DefaultFacts EXCEPT !.universal_region = <<0, 1>>]
    ELSE LET f == KindFacts(k, p - 1)
         IN  [f EXCEPT
                !.region_live_at = @ \o KindLive(k[p], p),
                !.killed = IF k[p] = "killed" THEN Append(@, <<0, p>>) ELSE @,
                !.borrow_region =
                    IF k[p] = "borrow" THEN Append(@, <<1, 0, p>>) ELSE @,
                !.cfg_edge = IF p > 0 THEN Append(@, <<p - 1, p>>) ELSE @]

PathInputs == {KindFacts(k, MaxPath) : k \in [0..MaxPath -> Kinds]}


----------------------------------------------------------------------------
(* The state machine.                                                      *)

NoOp == [op |-> "none", first |-> 0, second |-> 0, pre |-> DefaultFacts]

\* The loader when no file is being loaded.
LoaderIdle ==
    [status |-> "idle", arity |-> 1, lines |-> <<>>, index |-> 0,
     result |-> <<>>, tables |-> <<>>, returned |-> None, exit_code |-> 0]

Init ==
    /\ \/ facts \in GraphInputs
       \/ facts \in TestInputs
       \/ facts \in ReorderedInputs
       \/ facts \in FactInputs
       \/ facts \in PathInputs
    /\ pc = "idle"
    /\ chains = <<>>
    /\ rest = <<>>
    /\ current = 0
    /\ run = 0
    /\ input = facts
    /\ orig = facts
    /\ after1 = facts
    /\ merged = {}
    /\ rep = [x \in PointsOf(facts) |-> x]
    /\ last = NoOp
    /\ loader = LoaderIdle

\* simplify_cfg is called: isolated_chains() is evaluated once, before the
\* loop, and yields the chains in the iteration order of the HashSet.
Begin ==
    /\ pc = "idle"
    /\ run < MaxRuns
    /\ \E order \in Orders(chain_heads(facts)) :
          chains' = isolated_chains(facts, order)
    /\ pc' = "loop"
    /\ orig' = facts
    /\ merged' = {}
    /\ rep' = [x \in PointsOf(facts) |-> x]
    /\ last' = NoOp
    /\ UNCHANGED <<loader, facts, rest, current, run, input, after1>>

\* The loop of simplify_cfg hands the next chain to simplify_chain, which
\* sets `current` to chain[0] and `rest` to chain[1..].
NextChain ==
    /\ pc = "loop"
    /\ chains # <<>>
    /\ current' = Head(chains)[1]
    /\ rest' = Tail(Head(chains))
    /\ chains' = Tail(chains)
    /\ pc' = "chain"
    /\ UNCHANGED <<loader, facts, run, input, orig, after1, merged, rep,
                   last>>

\* One iteration of the loop of simplify_chain: the edge is collapsible and
\* collapse_edge keeps the first point.
StepKeepFirst ==
    /\ pc = "chain"
    /\ rest # <<>>
    /\ LET successor == Head(rest)
       IN  /\ is_edge_collapsible(facts, current, successor)
           /\ collapse_branch(facts, current, successor) = "keep_first"
           /\ facts' = collapse_edge(facts, current, successor)
           /\ merged' = merged \cup {successor}
           /\ rep' = [x \in DOMAIN rep |->
                         IF rep[x] = successor THEN current ELSE rep[x]]
           /\ last' = [op |-> "keep_first", first |-> current,
                       second |-> successor, pre |-> facts]
    /\ rest' = Tail(rest)
    /\ UNCHANGED <<loader, pc, chains, current, run, input, orig, after1>>

\* One iteration: the edge is collapsible and collapse_edge keeps the
\* second point.
StepKeepSecond ==
    /\ pc = "chain"
    /\ rest # <<>>
    /\ LET successor == Head(rest)
       IN  /\ is_edge_collapsible(facts, current, successor)
           /\ collapse_branch(facts, current, successor) = "keep_second"
           /\ facts' = collapse_edge(facts, current, successor)
           /\ merged' = merged \cup {current}
           /\ rep' = [x \in DOMAIN rep |->
                         IF rep[x] = current THEN successor ELSE rep[x]]
           /\ last' = [op |-> "keep_second", first |-> current,
                       second |-> successor, pre |-> facts]
    /\ rest' = Tail(rest)
    /\ UNCHANGED <<loader, pc, chains, current, run, input, orig, after1>>

\* One iteration: the edge is collapsible but collapse_edge takes neither
\* branch.
StepSkip ==
    /\ pc = "chain"
    /\ rest # <<>>
    /\ LET successor == Head(rest)
       IN  /\ is_edge_collapsible(facts, current, successor)
           /\ collapse_branch(facts, current, successor) = "skip"
           /\ facts' = collapse_edge(facts, current, successor)
           /\ last' = [op |-> "skip", first |-> current,
                       second |-> successor, pre |-> facts]
    /\ rest' = Tail(rest)
    /\ UNCHANGED <<loader, pc, chains, current, run, input, orig, after1,
                   merged, rep>>

\* One iteration: the edge is not collapsible, the anchor advances.
StepAdvance ==
    /\ pc = "chain"
    /\ rest # <<>>
    /\ LET successor == Head(rest)
       IN  /\ ~is_edge_collapsible(facts, current, successor)
           /\ current' = successor
           /\ last' = [op |-> "advance", first |-> current,
                       second |-> successor, pre |-> facts]
    /\ rest' = Tail(rest)
    /\ UNCHANGED <<loader, facts, pc, chains, run, input, orig, after1,
                   merged, rep>>

\* simplify_chain returns.
EndChain ==
    /\ pc = "chain"
    /\ rest = <<>>
    /\ pc' = "loop"
    /\ UNCHANGED <<loader, facts, chains, rest, current, run, input, orig,
                   after1, merged, rep, last>>

\* simplify_cfg returns.
Finish ==
    /\ pc = "loop"
    /\ chains = <<>>
    /\ pc' = "idle"
    /\ run' = run + 1
    /\ after1' = IF run = 0 THEN facts ELSE after1
    /\ UNCHANGED <<loader, facts, chains, rest, current, input, orig, merged,
                   rep, last>>

Next ==
    \/ Begin
    \/ NextChain
    \/ StepKeepFirst
    \/ StepKeepSecond
    \/ StepSkip
    \/ StepAdvance
    \/ EndChain
    \/ Finish

Spec == Init /\ [][Next]_vars

-----------------------------------------------------------------------------
(* load_tab_delimited_file (src/tab_delim.rs).  A line is a sequence of     *)
(* characters, a column a sub-sequence of it; a row is the sequence of the  *)
(* atoms its columns were interned to.                                      *)

Tab == "\t"
Chars == {"a", Tab}

\* line.split("\t"): the pieces between tab characters, left to right; a
\* line with n tabs has n + 1 pieces, the empty line has one empty piece.
RECURSIVE split_from(_, _, _, _)
split_from(line, i, piece, pieces) ==
    IF i > Len(line)
    THEN Append(pieces, piece)
    ELSE IF line[i] = Tab
         THEN split_from(line, i + 1, <<>>, Append(pieces, piece))
         ELSE split_from(line, i + 1, Append(piece, line[i]), pieces)

split(line) == split_from(line, 1, <<>>, <<>>)

\* InternTo::intern: the atom of a token is the index of its first
\* occurrence in the table; an unseen token is added at the end.  One table
\* stands for the per-kind tables of InternerTables.
intern(tables, token) ==
    IF \E i \in 1..Len(tables) : tables[i] = token
    THEN [tables |-> tables,
          atom   |-> (CHOOSE i \in 1..Len(tables) : tables[i] = token) - 1]
    ELSE [tables |-> Append(tables, token), atom |-> Len(tables)]

\* The token an atom stands for.
untern(tables, atom) == tables[atom + 1]

\* FromTabDelimited::parse for a row of `arity` fields: each field takes
\* the next column (inputs.next()?) and interns it; None as soon as the
\* columns run out.  `taken` is the number of columns consumed so far.
RECURSIVE parse_from(_, _, _, _, _)
parse_from(tables, columns, taken, arity, row) ==
    IF Len(row) = arity
    THEN [some |-> TRUE, row |-> row, tables |-> tables, taken |-> taken]
    ELSE IF taken >= Len(columns)
         THEN [some |-> FALSE, row |-> row, tables |-> tables,
               taken |-> taken]
         ELSE LET i == intern(tables, columns[taken + 1])
              IN  parse_from(i.tables, columns, taken + 1, arity,
                             Append(row, i.atom))

parse(tables, columns, arity) == parse_from(tables, columns, 0, arity, <<>>)

\* columns.next().is_some() after parse: a column is left over.
extra_data_never(columns, taken) == FALSE

extra_data(columns, taken) == taken < Len(columns)

\* The arities of the FromTabDelimited implementations: T, (A, B),
\* (A, B, C) and (A, B, C, D).
RowArities == {1, 2, 3, 4}

Lines == SeqsUpTo(Chars, MaxLineLen)
Files == SeqsUpTo(Lines, MaxLines)

\* File::open succeeded and result is the empty Vec.
LoaderInit ==
    /\ facts = DefaultFacts
    /\ pc = "loading"
    /\ chains = <<>>
    /\ rest = <<>>
    /\ current = 0
    /\ run = 0
    /\ input = facts
    /\ orig = facts
    /\ after1 = facts
    /\ merged = {}
    /\ rep = EmptyMap
    /\ last = NoOp
    /\ \E arity \in RowArities, lines \in Files, tables \in {<<>>, <<<<"a">>>>} :
          loader = [status |-> "reading", arity |-> arity, lines |-> lines,
                    index |-> 0, result |-> <<>>, tables |-> tables,
                    returned |-> None, exit_code |-> 0]

\* What the loop body computes for the line at `index`.
CurrentColumns == split(loader.lines[loader.index + 1])
CurrentParse == parse(loader.tables, CurrentColumns, loader.arity)

InLoop == loader.status = "reading" /\ loader.index < Len(loader.lines)

\* parse returned None: "error parsing line", process::exit(1).
LineParseError ==
    /\ InLoop
    /\ ~CurrentParse.some
    /\ loader' = [loader EXCEPT !.status = "exited", !.exit_code = 1,
                                !.tables = CurrentParse.tables]
    /\ UNCHANGED simplify_vars

\* A column is left over: "extra data on line", process::exit(1).
LineExtraData ==
    /\ InLoop
    /\ CurrentParse.some
    /\ extra_data(CurrentColumns, CurrentParse.taken)
    /\ loader' = [loader EXCEPT !.status = "exited", !.exit_code = 1,
                                !.tables = CurrentParse.tables]
    /\ UNCHANGED simplify_vars

\* result.push(row), and on to the next line.
LinePush ==
    /\ InLoop
    /\ CurrentParse.some
    /\ ~extra_data(CurrentColumns, CurrentParse.taken)
    /\ loader' = [loader EXCEPT !.result = Append(@, CurrentParse.row),
                                !.tables = CurrentParse.tables,
                                !.index = @ + 1]
    /\ UNCHANGED simplify_vars

\* The lines are exhausted: Ok(result).
ReturnOk ==
    /\ loader.status = "reading"
    /\ loader.index = Len(loader.lines)
    /\ loader' = [loader EXCEPT !.status = "returned",
                                !.returned = Some(loader.result)]
    /\ UNCHANGED simplify_vars

LoaderNext ==
    \/ LineParseError
    \/ LineExtraData
    \/ LinePush
    \/ ReturnOk

LoaderSpec == LoaderInit /\ [][LoaderNext]_vars

----------------------------------------------------------------------------
(* simplify_chain and simplify_cfg as functions of the store, used to      *)
(* state what a whole call computes for a given order of chain_heads.      *)

\* The loop of simplify_chain from anchor `cur` over the points `points`.
RECURSIVE simplify_chain_from(_, _, _)
simplify_chain_from(f, cur, points) ==
    IF points = <<>> THEN f
    ELSE IF is_edge_collapsible(f, cur, Head(points))
    THEN simplify_chain_from(collapse_edge(f, cur, Head(points)), cur,
                             Tail(points))
    ELSE simplify_chain_from(f, Head(points), Tail(points))

simplify_chain(f, chain) == simplify_chain_from(f, chain[1], Tail(chain))

RECURSIVE simplify_chains(_, _)
simplify_chains(f, cs) ==
    IF cs = <<>> THEN f
    ELSE simplify_chains(simplify_chain(f, Head(cs)), Tail(cs))

\* simplify_cfg when chain_heads is iterated in `order`.
simplify_cfg(f, order) == simplify_chains(f, isolated_chains(f, order))

\* The elements of a set of points in increasing order.
RECURSIVE Ascending(_)
Ascending(S) ==
    IF S = {} THEN <<>>
    ELSE LET m == CHOOSE x \in S : \A y \in S : x <= y
         IN  <<m>> \o Ascending(S \ {m})

----------------------------------------------------------------------------
(* Vocabulary of the properties.                                           *)

\* A call of simplify_cfg has returned.
Returned == pc = "idle" /\ run >= 1
\* The first call of simplify_cfg has returned and no second one started.
ReturnedOnce == pc = "idle" /\ run = 1

EdgePoints(edges) == {e[1] : e \in Range(edges)} \cup {e[2] : e \in Range(edges)}
OutDegree(edges, p) == Cardinality({i \in 1..Len(edges) : edges[i][1] = p})
InDegree(edges, p) == Cardinality({i \in 1..Len(edges) : edges[i][2] = p})

\* The sets of facts located at a point.
LiveSetAt(f, p) == {t[1] : t \in {u \in Range(f.region_live_at) : u[2] = p}}
KilledAt(f, p) == {t \in Range(f.killed) : t[2] = p}
OutlivesAt(f, p) == {t \in Range(f.outlives) : t[3] = p}
InvalidatesAt(f, p) == {t \in Range(f.invalidates) : t[1] = p}
BorrowAt(f, p) == {t \in Range(f.borrow_region) : t[3] = p}
CarriesFact(f, p) ==
    \/ LiveSetAt(f, p) # {}
    \/ KilledAt(f, p) # {}
    \/ OutlivesAt(f, p) # {}
    \/ InvalidatesAt(f, p) # {}

OnlyCfgEdge(f) == f = [DefaultFacts EXCEPT !.cfg_edge = f.cfg_edge]

\* p reaches q along at least one edge.
RECURSIVE ReachWithin(_, _, _, _)
ReachWithin(edges, p, q, n) ==
    /\ n > 0
    /\ \E i \in 1..Len(edges) :
          /\ edges[i][1] = p
          /\ (edges[i][2] = q \/ ReachWithin(edges, edges[i][2], q, n - 1))

\* cfg_edge is a vertex-disjoint union of simple paths.
IsPathUnion(edges) ==
    /\ \A p \in EdgePoints(edges) :
          OutDegree(edges, p) <= 1 /\ InDegree(edges, p) <= 1
    /\ \A p \in EdgePoints(edges) : ~ReachWithin(edges, p, p, Len(edges))

\* The first point of the path on which p lies (in a union of paths).
RECURSIVE PathStart(_, _)
PathStart(edges, p) ==
    IF InDegree(edges, p) = 0 THEN p
    ELSE PathStart(edges, (CHOOSE e \in Range(edges) : e[2] = p)[1])

----------------------------------------------------------------------------
(* C1: Idempotence.  When simplify_cfg has run twice in succession on a    *)
(* store, all seven relations after the second run equal the relations     *)
(* after the first run.                                                    *)
C1_Idempotent == (pc = "idle" /\ run = 2) => facts = after1

\* A second run has returned on a store that the first run had changed.
C1_Witness == pc = "idle" /\ run = 2 /\ after1 # input /\ facts = after1

(* C2: Soundness of collapse.  When the last iteration merged a point      *)
(* away, then in the store just before it the two points had the same set  *)
(* of live regions and neither carried a killed, outlives or invalidates   *)
(* tuple; and no merged-away point carried such a tuple when the call      *)
(* started.                                                                *)
C2_SoundCollapse ==
    /\ last.op \in {"keep_first", "keep_second"} =>
          /\ LiveSetAt(last.pre, last.first) = LiveSetAt(last.pre, last.second)
          /\ \A x \in {last.first, last.second} :
                /\ KilledAt(last.pre, x) = {}
                /\ OutlivesAt(last.pre, x) = {}
                /\ InvalidatesAt(last.pre, x) = {}
    /\ \A x \in merged :
          /\ KilledAt(orig, x) = {}
          /\ OutlivesAt(orig, x) = {}
          /\ InvalidatesAt(orig, x) = {}

\* A merge of two points that both have a live region, in a store that
\* holds a killed, outlives or invalidates tuple elsewhere.
C2_Witness ==
    /\ last.op \in {"keep_first", "keep_second"}
    /\ LiveSetAt(last.pre, last.first) # {}
    /\ Len(last.pre.killed) + Len(last.pre.outlives)
         + Len(last.pre.invalidates) > 0

(* C3: Straight-line collapse.  If cfg_edge was a vertex-disjoint union of *)
(* simple paths and every other relation was empty, then after             *)
(* simplify_cfg cfg_edge holds exactly one edge (c0, cn) per path, the     *)
(* paths being listed in the order of their last edges in the input.       *)
C3_Expected(edges) ==
    LET lastEdges == SelectSeq(edges, LAMBDA e : OutDegree(edges, e[2]) = 0)
    IN  [i \in 1..Len(lastEdges) |->
            <<PathStart(edges, lastEdges[i][1]), lastEdges[i][2]>>]

C3_StraightLine ==
    (ReturnedOnce /\ OnlyCfgEdge(input) /\ IsPathUnion(input.cfg_edge))
        => facts = [DefaultFacts EXCEPT !.cfg_edge = C3_Expected(input.cfg_edge)]

\* Two paths whose edges were interleaved in the input have been collapsed.
C3_Witness ==
    /\ ReturnedOnce /\ OnlyCfgEdge(input) /\ IsPathUnion(input.cfg_edge)
    /\ Len(facts.cfg_edge) = 2
    /\ input.cfg_edge[1][1] = facts.cfg_edge[2][1]
    /\ Len(input.cfg_edge) > 2

(* C4: Branching collapse, all other relations being empty.  A chain whose *)
(* last point has several successors is folded into its head, which then   *)
(* carries every outgoing edge of that last point; a chain whose last      *)
(* point has no outgoing edge and whose head has an incoming edge is       *)
(* folded into its last point, which receives every incoming edge of the   *)
(* head.  The inputs of the tests chain_with_fork and chain_with_loop give *)
(* exactly [(0,4),(0,6)] and [(0,4),(4,9),(0,10),(10,9)], whatever the     *)
(* order of the chains.                                                    *)
C4_ChainFolded(chain) ==
    LET edges == input.cfg_edge
        c0 == chain[1]
        cn == chain[Len(chain)]
    IN  /\ OutDegree(edges, cn) >= 2 =>
              /\ \A i \in 1..Len(chain) : rep[chain[i]] = c0
              /\ \A e \in Range(edges) :
                    e[1] = cn => <<c0, rep[e[2]]>> \in Range(facts.cfg_edge)
        /\ (OutDegree(edges, cn) = 0 /\ InDegree(edges, c0) >= 1) =>
              /\ \A i \in 1..Len(chain) : rep[chain[i]] = cn
              /\ \A e \in Range(edges) :
                    e[2] = c0 => <<rep[e[1]], cn>> \in Range(facts.cfg_edge)

C4_Branching ==
    (ReturnedOnce /\ OnlyCfgEdge(input)) =>
        /\ \A chain \in Range(isolated_chains(input,
                                 Ascending(chain_heads(input)))) :
              C4_ChainFolded(chain)
        /\ input.cfg_edge = chain_with_fork =>
              facts.cfg_edge = <<<<0, 4>>, <<0, 6>>>>
        /\ input.cfg_edge = chain_with_loop =>
              facts.cfg_edge = <<<<0, 4>>, <<4, 9>>, <<0, 10>>, <<10, 9>>>>

\* The input of chain_with_loop has been simplified.
C4_Witness ==
    /\ ReturnedOnce
    /\ input.cfg_edge = chain_with_loop
    /\ facts.cfg_edge = <<<<0, 4>>, <<4, 9>>, <<0, 10>>, <<10, 9>>>>

(* C5: A fact on an interior point splits the chain.  If cfg_edge was one  *)
(* simple path c0 -> ... -> cn, n >= 2, and exactly one point x of it,     *)
(* an interior one, carried a region_live_at, killed, outlives or          *)
(* invalidates tuple, then after simplify_cfg x is still present, the      *)
(* tuples at x are unchanged and cfg_edge is exactly {(c0, x), (x, cn)}.   *)
C5_Carriers == {y \in EdgePoints(input.cfg_edge) : CarriesFact(input, y)}

C5_Case ==
    /\ ReturnedOnce
    /\ Len(input.cfg_edge) >= 2
    /\ IsPathUnion(input.cfg_edge)
    /\ Cardinality({p \in EdgePoints(input.cfg_edge) :
                       InDegree(input.cfg_edge, p) = 0}) = 1
    /\ Cardinality(C5_Carriers) = 1
    /\ \A x \in C5_Carriers :
          InDegree(input.cfg_edge, x) = 1 /\ OutDegree(input.cfg_edge, x) = 1

C5_InteriorFactSplits ==
    C5_Case =>
        LET edges == input.cfg_edge
            x == CHOOSE y \in C5_Carriers : TRUE
            c0 == CHOOSE p \in EdgePoints(edges) : InDegree(edges, p) = 0
            cn == CHOOSE p \in EdgePoints(edges) : OutDegree(edges, p) = 0
        IN  /\ x \in EdgePoints(facts.cfg_edge)
            /\ SelectSeq(facts.region_live_at, LAMBDA t : t[2] = x)
                 = SelectSeq(input.region_live_at, LAMBDA t : t[2] = x)
            /\ SelectSeq(facts.killed, LAMBDA t : t[2] = x)
                 = SelectSeq(input.killed, LAMBDA t : t[2] = x)
            /\ SelectSeq(facts.outlives, LAMBDA t : t[3] = x)
                 = SelectSeq(input.outlives, LAMBDA t : t[3] = x)
            /\ SelectSeq(facts.invalidates, LAMBDA t : t[1] = x)
                 = SelectSeq(input.invalidates, LAMBDA t : t[1] = x)
            /\ SelectSeq(facts.borrow_region, LAMBDA t : t[3] = x)
                 = SelectSeq(input.borrow_region, LAMBDA t : t[3] = x)
            /\ Len(facts.cfg_edge) = 2
            /\ Range(facts.cfg_edge) = {<<c0, x>>, <<x, cn>>}

\* A path of three edges with a fact on one interior point was simplified.
C5_Witness == C5_Case /\ Len(input.cfg_edge) = 3 /\ Len(facts.cfg_edge) = 2

(* C6: Connectivity preservation.  After simplify_cfg, for every edge      *)
(* (p, q) of the cfg_edge it started from, rep(p) = rep(q) or              *)
(* (rep(p), rep(q)) is an edge of cfg_edge; rep maps every point to a      *)
(* surviving point, and the only edges lost are the collapsed ones, one    *)
(* per merged-away point.                                                  *)
C6_Connectivity ==
    Returned =>
        /\ \A e \in Range(orig.cfg_edge) :
              \/ rep[e[1]] = rep[e[2]]
              \/ <<rep[e[1]], rep[e[2]]>> \in Range(facts.cfg_edge)
        /\ \A x \in DOMAIN rep : rep[x] \notin merged
        /\ Len(facts.cfg_edge) = Len(orig.cfg_edge) - Cardinality(merged)

\* A call has merged two points or more away and rewritten an edge.
C6_Witness ==
    /\ Returned
    /\ Cardinality(merged) >= 2
    /\ \E e \in Range(facts.cfg_edge) : e \notin Range(orig.cfg_edge)

(* C7: No dangling references.  In every state, a point merged away during *)
(* the current call occurs in no tuple of cfg_edge, borrow_region, killed, *)
(* outlives, region_live_at or invalidates.                                *)
C7_NoDangling == \A x \in merged : x \notin PointsOf(facts)

\* A point that carried facts and had an edge to a third point was merged
\* away.
C7_Witness ==
    \E x \in merged :
        /\ BorrowAt(orig, x) # {} \/ LiveSetAt(orig, x) # {}
        /\ \E e \in Range(orig.cfg_edge) : e[1] = x /\ e[2] \notin merged

(* C8: Frame of simplify_cfg.  universal_region never changes; each of     *)
(* borrow_region, killed, outlives, region_live_at and invalidates is, in  *)
(* every state, the list it was at the start of the call without the       *)
(* tuples located at merged-away points; and after the call the tuples at  *)
(* points that still occur in cfg_edge or never occurred in it are the     *)
(* same list as before.                                                    *)
C8_Kept(p) ==
    p \in EdgePoints(facts.cfg_edge) \/ p \notin EdgePoints(orig.cfg_edge)

C8_Frame ==
    /\ facts.universal_region = orig.universal_region
    /\ facts.borrow_region
         = SelectSeq(orig.borrow_region, LAMBDA t : t[3] \notin merged)
    /\ facts.killed = SelectSeq(orig.killed, LAMBDA t : t[2] \notin merged)
    /\ facts.outlives = SelectSeq(orig.outlives, LAMBDA t : t[3] \notin merged)
    /\ facts.region_live_at
         = SelectSeq(orig.region_live_at, LAMBDA t : t[2] \notin merged)
    /\ facts.invalidates
         = SelectSeq(orig.invalidates, LAMBDA t : t[1] \notin merged)
    /\ Returned =>
          /\ SelectSeq(facts.borrow_region, LAMBDA t : C8_Kept(t[3]))
               = SelectSeq(orig.borrow_region, LAMBDA t : C8_Kept(t[3]))
          /\ SelectSeq(facts.killed, LAMBDA t : C8_Kept(t[2]))
               = SelectSeq(orig.killed, LAMBDA t : C8_Kept(t[2]))
          /\ SelectSeq(facts.outlives, LAMBDA t : C8_Kept(t[3]))
               = SelectSeq(orig.outlives, LAMBDA t : C8_Kept(t[3]))
          /\ SelectSeq(facts.region_live_at, LAMBDA t : C8_Kept(t[2]))
               = SelectSeq(orig.region_live_at, LAMBDA t : C8_Kept(t[2]))
          /\ SelectSeq(facts.invalidates, LAMBDA t : C8_Kept(t[1]))
               = SelectSeq(orig.invalidates, LAMBDA t : C8_Kept(t[1]))

\* A call dropped a region_live_at tuple and kept two others.
C8_Witness ==
    /\ Returned
    /\ Len(facts.region_live_at) >= 2
    /\ Len(facts.region_live_at) < Len(orig.region_live_at)
    /\ facts.universal_region # <<>>

(* C9: No duplicates introduced.  In every state, if cfg_edge had no       *)
(* duplicate tuple at the start of the call it has none now, and no tuple  *)
(* of the other six relations occurs more often than at the start.         *)
C9_NoMore(now, before) == \A t \in Range(now) : Count(now, t) <= Count(before, t)

C9_NoNewDuplicates ==
    /\ NoDuplicates(orig.cfg_edge) => NoDuplicates(facts.cfg_edge)
    /\ C9_NoMore(facts.borrow_region, orig.borrow_region)
    /\ C9_NoMore(facts.universal_region, orig.universal_region)
    /\ C9_NoMore(facts.killed, orig.killed)
    /\ C9_NoMore(facts.outlives, orig.outlives)
    /\ C9_NoMore(facts.region_live_at, orig.region_live_at)
    /\ C9_NoMore(facts.invalidates, orig.invalidates)

\* An edge has been rewritten onto a surviving point that has another edge.
C9_Witness ==
    /\ NoDuplicates(orig.cfg_edge)
    /\ \E e \in Range(facts.cfg_edge) :
          /\ e \notin Range(orig.cfg_edge)
          /\ \E d \in Range(facts.cfg_edge) :
                d # e /\ (d[1] = e[1] \/ d[2] = e[2])

(* C10: Order independence.  After simplify_cfg the seven relations are    *)
(* what simplify_cfg computes from the same store for every iteration      *)
(* order of chain_heads.                                                   *)
C10_OrderIndependent ==
    Returned =>
        \A order \in Orders(chain_heads(orig)) : facts = simplify_cfg(orig, order)

\* A call with two chains or more has merged points away.
C10_Witness ==
    Returned /\ Cardinality(chain_heads(orig)) >= 2 /\ Cardinality(merged) >= 2

----------------------------------------------------------------------------
(* Vocabulary of the properties of isolated edges and chains.              *)

\* The edges whose source has one outgoing and whose target has one
\* incoming edge, counted in the list.
IsIsolated(edges, e) ==
    OutDegree(edges, e[1]) = 1 /\ InDegree(edges, e[2]) = 1

IsolatedList(edges) == SelectSeq(edges, LAMBDA e : IsIsolated(edges, e))

\* No cycle of the graph consists of isolated edges only.
NoIsolatedCycle(edges) ==
    LET iso == IsolatedList(edges)
    IN  \A p \in EdgePoints(iso) : ~ReachWithin(iso, p, p, Len(iso))

\* The edges of a store that are isolated and collapsible and on which
\* collapse_edge would not skip.
Collapsable(f) ==
    {e \in Range(f.cfg_edge) :
        /\ IsIsolated(f.cfg_edge, e)
        /\ is_edge_collapsible(f, e[1], e[2])
        /\ (OutDegree(f.cfg_edge, e[2]) >= 1 \/ InDegree(f.cfg_edge, e[1]) >= 1)}

(* C11 as stated: single-pass completeness.  After one call of             *)
(* simplify_cfg no edge is left that is isolated, collapsible and not the  *)
(* skip case of collapse_edge, for every input graph, cycles included.     *)
C11_Original == ReturnedOnce => Collapsable(facts) = {}

(* C11 as amended: the same, for every input graph in which no cycle       *)
(* consists of isolated edges only.                                        *)
C11_SinglePass ==
    (ReturnedOnce /\ NoIsolatedCycle(input.cfg_edge)) => Collapsable(facts) = {}

\* A call has merged points away in a graph that has a cycle, none of them
\* made of isolated edges only.
C11_Witness ==
    /\ ReturnedOnce /\ NoIsolatedCycle(input.cfg_edge)
    /\ merged # {}
    /\ \E p \in EdgePoints(input.cfg_edge) :
          ReachWithin(input.cfg_edge, p, p, Len(input.cfg_edge))

\* isolated_chains has just returned: no chain has been handed to
\* simplify_chain yet.
JustBegun == pc = "loop" /\ Len(chains) = Cardinality(chain_heads(orig))

(* C12: Chain disjointness.  In the list returned by isolated_chains no    *)
(* point appears in two chains nor twice in one chain, every chain has at  *)
(* least two points and every point of a chain occurs in a cfg_edge tuple. *)
C12_ChainsDisjoint ==
    JustBegun =>
        /\ \A i, j \in 1..Len(chains) :
              \A k \in 1..Len(chains[i]), l \in 1..Len(chains[j]) :
                  chains[i][k] = chains[j][l] => (i = j /\ k = l)
        /\ \A i \in 1..Len(chains) :
              /\ Len(chains[i]) >= 2
              /\ Range(chains[i]) \subseteq EdgePoints(facts.cfg_edge)

\* isolated_chains has returned two chains, one of them of three points or
\* more, from a graph that has a join.
C12_Witness ==
    /\ JustBegun
    /\ Len(chains) >= 2
    /\ \E i \in 1..Len(chains) : Len(chains[i]) >= 3
    /\ \E p \in EdgePoints(facts.cfg_edge) : InDegree(facts.cfg_edge, p) >= 2

(* C13: Edge-count monotonicity.  No step of simplify_cfg makes cfg_edge   *)
(* longer, and after the call cfg_edge is not longer than before it.       *)
C13_EdgeCountMonotone ==
    /\ [](Returned => Len(facts.cfg_edge) <= Len(orig.cfg_edge))
    /\ [][Len(facts'.cfg_edge) <= Len(facts.cfg_edge)]_vars

\* A call has removed two edges or more from a graph that has a fork.
C13_Witness ==
    /\ Returned
    /\ Len(facts.cfg_edge) + 2 <= Len(orig.cfg_edge)
    /\ \E p \in EdgePoints(facts.cfg_edge) : OutDegree(facts.cfg_edge, p) >= 2

-----------------------------------------------------------------------------
(* C14 *)

\* The columns of a line, counted and cut at its tab characters.
TabCount(line, n) == Cardinality({i \in 1..n : line[i] = Tab})
ColumnCount(line) == TabCount(line, Len(line)) + 1
Column(line, j) ==
    LET inside == {i \in 1..Len(line) :
                      line[i] # Tab /\ TabCount(line, i) = j - 1}
    IN  [k \in 1..Cardinality(inside) |->
            line[(CHOOSE i \in inside : \A m \in inside : i <= m) + k - 1]]

RightColumns(line) == ColumnCount(line) = loader.arity

\* C14: a line with fewer columns than the row type needs, or with a column
\* left over, ends the process with a failure exit status at that line: no
\* rows are returned and no later line is processed.  A file whose lines
\* all have exactly the right number of columns yields one row per line, in
\* file order, each row holding the atoms of the line's columns.
C14_LoaderFatal ==
    /\ \A k \in 1..Len(loader.lines) :
          ~RightColumns(loader.lines[k]) =>
              /\ loader.index < k
              /\ Len(loader.result) < k
              /\ loader.status # "returned"
    /\ loader.status = "exited" =>
          /\ loader.index < Len(loader.lines)
          /\ ~RightColumns(loader.lines[loader.index + 1])
          /\ \A i \in 1..loader.index : RightColumns(loader.lines[i])
          /\ loader.exit_code = 1
          /\ loader.returned = None
    /\ loader.status = "returned" =>
          /\ \A i \in 1..Len(loader.lines) : RightColumns(loader.lines[i])
          /\ loader.exit_code = 0
          /\ loader.returned = Some(loader.result)
          /\ Len(loader.result) = Len(loader.lines)
          /\ \A i \in 1..Len(loader.lines) :
                /\ Len(loader.result[i]) = loader.arity
                /\ \A j \in 1..loader.arity :
                      untern(loader.tables, loader.result[i][j])
                          = Column(loader.lines[i], j)

C14_Witness ==
    /\ loader.status = "exited"
    /\ loader.index = 1
    /\ Len(loader.lines) = 2
    /\ ColumnCount(loader.lines[2]) > loader.arity
    /\ loader.arity >= 2

-----------------------------------------------------------------------------
(* C15 *)

\* The point carries no killed, outlives or invalidates tuple.
NoEffectAt(f, p) ==
    KilledAt(f, p) = {} /\ OutlivesAt(f, p) = {} /\ InvalidatesAt(f, p) = {}

\* The last iteration of simplify_chain found its edge collapsible.
LastCollapsible == last.op \in {"keep_first", "keep_second", "skip"}

\* C15: is_edge_collapsible(p, q) is true exactly when the set of regions
\* live at p equals the set of regions live at q, compared as sets whatever
\* the order and multiplicity of the region_live_at tuples, and neither p
\* nor q has a killed, outlives or invalidates tuple.
C15_SetEquality ==
    last.op # "none" =>
        (LastCollapsible <=>
            /\ LiveSetAt(last.pre, last.first) = LiveSetAt(last.pre, last.second)
            /\ NoEffectAt(last.pre, last.first)
            /\ NoEffectAt(last.pre, last.second))

-----------------------------------------------------------------------------
(* C16 *)

\* The pairs of a point-to-point map.
PairsOf(m) == {<<p, m[p]>> : p \in DOMAIN m}

\* C16: isolated_edges returns exactly the pairs (p, q) of cfg_edge such
\* that p is the source of exactly one tuple and q the target of exactly
\* one tuple, tuples being counted with their multiplicity; the result is
\* an injective partial function.
C16_IsolatedEdges ==
    LET m == isolated_edges(facts)
    IN  /\ PairsOf(m) = {e \in Range(facts.cfg_edge) :
                            /\ Cardinality({i \in DOMAIN facts.cfg_edge :
                                   facts.cfg_edge[i][1] = e[1]}) = 1
                            /\ Cardinality({i \in DOMAIN facts.cfg_edge :
                                   facts.cfg_edge[i][2] = e[2]}) = 1}
        /\ \A p, r \in DOMAIN m : m[p] = m[r] => p = r

C16_Witness ==
    /\ JustBegun
    /\ isolated_edges(facts) # EmptyMap
    /\ \E i, j \in DOMAIN facts.cfg_edge :
          i # j /\ facts.cfg_edge[i] = facts.cfg_edge[j]

-----------------------------------------------------------------------------
(* C17 *)

\* The tuples of a list that are not located at point x; `col` is the
\* position of the point in the tuple.
Without(list, col, x) == SelectSeq(list, LAMBDA t : t[col] # x)

\* The five point-indexed relations of f are those of pre without the
\* tuples located at x, and universal_region is the same.
FactsDroppedAt(pre, f, x) ==
    /\ f.borrow_region = Without(pre.borrow_region, 3, x)
    /\ f.killed = Without(pre.killed, 2, x)
    /\ f.outlives = Without(pre.outlives, 3, x)
    /\ f.region_live_at = Without(pre.region_live_at, 2, x)
    /\ f.invalidates = Without(pre.invalidates, 1, x)
    /\ f.universal_region = pre.universal_region

\* `after` is `before` with exactly one tuple, an edge (p, q), taken out
\* and every other edge kept in place, its column `col` changed from
\* `gone` to `kept`.
OneEdgeOut(before, after, p, q, col, gone, kept) ==
    /\ Len(after) = Len(before) - 1
    /\ \E i \in 1..Len(before) :
          /\ before[i] = <<p, q>>
          /\ \A j \in 1..Len(after) :
                LET e == before[IF j < i THEN j ELSE j + 1]
                IN  after[j] = IF e[col] = gone
                               THEN [e EXCEPT ![col] = kept]
                               ELSE e

\* C17: when simplify_chain collapses the edge (p, q): if q has an outgoing
\* edge, p survives: the tuples at q leave the five point-indexed
\* relations, the edge (p, q) is removed, every remaining edge with source
\* q gets source p and nothing else changes; otherwise, if p has an
\* incoming edge, q survives: the tuples at p leave the five relations, the
\* edge (p, q) is removed, every edge with target p gets target q and
\* nothing else changes.  In both cases exactly one cfg_edge tuple
\* disappears.
C17_CollapseRewrite ==
    LET pre == last.pre
        p == last.first
        q == last.second
    IN  /\ (LastCollapsible /\ OutDegree(pre.cfg_edge, q) >= 1)
               => last.op = "keep_first"
        /\ (LastCollapsible /\ OutDegree(pre.cfg_edge, q) = 0
                /\ InDegree(pre.cfg_edge, p) >= 1)
               => last.op = "keep_second"
        /\ last.op = "keep_first" =>
               /\ OutDegree(pre.cfg_edge, q) >= 1
               /\ FactsDroppedAt(pre, facts, q)
               /\ OneEdgeOut(pre.cfg_edge, facts.cfg_edge, p, q, 1, q, p)
        /\ last.op = "keep_second" =>
               /\ OutDegree(pre.cfg_edge, q) = 0
               /\ InDegree(pre.cfg_edge, p) >= 1
               /\ FactsDroppedAt(pre, facts, p)
               /\ OneEdgeOut(pre.cfg_edge, facts.cfg_edge, p, q, 2, p, q)

C17_Witness ==
    /\ last.op = "keep_second"
    /\ BorrowAt(last.pre, last.first) # {}
    /\ InDegree(last.pre.cfg_edge, last.first) >= 2
    /\ Len(facts.cfg_edge) >= 2

-----------------------------------------------------------------------------
(* C18 *)

\* C18: when q has no outgoing edge and p has no incoming edge,
\* collapse_edge(p, q) leaves all seven relations unchanged, the edge
\* (p, q) and the facts at p and q included, and the walk goes on; a graph
\* of a single edge, or an empty graph, is returned unchanged by
\* simplify_cfg.
C18_SkipNoOp ==
    LET pre == last.pre
        p == last.first
        q == last.second
        dangling == /\ OutDegree(pre.cfg_edge, q) = 0
                    /\ InDegree(pre.cfg_edge, p) = 0
    IN  /\ (LastCollapsible /\ dangling) =>
               /\ last.op = "skip"
               /\ facts = pre
               /\ <<p, q>> \in Range(facts.cfg_edge)
        /\ last.op = "skip" => dangling
        /\ (Returned /\ Len(orig.cfg_edge) <= 1) => facts = orig

C18_Witness ==
    /\ Returned
    /\ last.op = "skip"
    /\ Len(orig.cfg_edge) = 1
    /\ BorrowAt(facts, last.first) # {}

-----------------------------------------------------------------------------
(* C19 *)

\* The places <<i, k>> where the points of edge e stand next to each other
\* in the chains.
PlacesOf(e) ==
    {pl \in UNION {{<<i, k>> : k \in 1..Len(chains[i]) - 1} :
                      i \in 1..Len(chains)} :
        /\ chains[pl[1]][pl[2]] = e[1]
        /\ chains[pl[1]][pl[2] + 1] = e[2]}

IsolatedEdgeSet(edges) == {e \in Range(edges) : IsIsolated(edges, e)}

\* Every pair of consecutive points of a chain is an isolated edge.
ChainsOfIsolatedEdges ==
    \A i \in 1..Len(chains) : \A k \in 1..Len(chains[i]) - 1 :
        <<chains[i][k], chains[i][k + 1]>> \in IsolatedEdgeSet(facts.cfg_edge)

\* The edge lies on a cycle made only of isolated edges.
OnIsolatedCycle(edges, e) ==
    LET iso == IsolatedList(edges)
    IN  e[1] = e[2] \/ ReachWithin(iso, e[2], e[1], Len(iso))

\* C19 as stated: every isolated edge, those on a cycle of isolated edges
\* included, appears as a pair of consecutive points in exactly one chain
\* returned by isolated_chains, and every pair of consecutive points of a
\* chain is an isolated edge.
C19_Original ==
    JustBegun =>
        /\ \A e \in IsolatedEdgeSet(facts.cfg_edge) :
              Cardinality(PlacesOf(e)) = 1
        /\ ChainsOfIsolatedEdges

\* C19 amended: every isolated edge that does not lie on a cycle made only
\* of isolated edges appears as a pair of consecutive points in exactly one
\* chain, at one place; an isolated edge on such a cycle appears in no
\* chain; every pair of consecutive points of a chain is an isolated edge.
C19_ChainCoverage ==
    JustBegun =>
        /\ \A e \in IsolatedEdgeSet(facts.cfg_edge) :
              Cardinality(PlacesOf(e)) =
                  IF OnIsolatedCycle(facts.cfg_edge, e) THEN 0 ELSE 1
        /\ ChainsOfIsolatedEdges

C19_Witness ==
    /\ JustBegun
    /\ Len(chains) >= 1
    /\ \E i \in 1..Len(chains) : Len(chains[i]) >= 3
    /\ \E e \in IsolatedEdgeSet(facts.cfg_edge) :
          OnIsolatedCycle(facts.cfg_edge, e)

-----------------------------------------------------------------------------
(* C20 *)

\* simplify_chain is about to evaluate is_edge_collapsible(current, next).
AtEvaluation == pc = "chain" /\ rest # <<>>

\* C20: every time simplify_chain evaluates is_edge_collapsible(anchor,
\* next), the pair (anchor, next) is an edge of the live cfg_edge and the
\* anchor has not been merged away; the branch of collapse_edge that keeps
\* the second point, which deletes the anchor, is only taken for the last
\* point of a chain.
C20_AnchorValid ==
    /\ [](AtEvaluation =>
            /\ <<current, Head(rest)>> \in Range(facts.cfg_edge)
            /\ current \notin merged
            /\ Head(rest) \notin merged)
    /\ [][StepKeepSecond => rest' = <<>>]_vars

C20_Witness ==
    /\ AtEvaluation
    /\ last.op = "keep_first"
    /\ last.first = current
    /\ Len(chains) < Cardinality(chain_heads(orig)) - 1
    /\ <<current, Head(rest)>> \notin Range(orig.cfg_edge)

====
